---- MODULE Spec2Model ----
(***************************************************************************)
(* The sonar/sonda unplugin factory: the module mapping `inputs`, the      *)
(* source-map graph `sourcesGraph`, the adapter callbacks (load, rollup    *)
(* moduleParsed, webpack optimizeModules and afterEmit) and writeBundle    *)
(* with the attribution loop of generateReportFromAssets.                  *)
(*                                                                         *)
(* A path is a record [abs, segs]: `segs` are the path's segments and      *)
(* `abs` says whether it starts at the file-system root.  The working      *)
(* directory is /w, so the absolute id /w/a/n.js is                        *)
(* [abs |-> TRUE, segs |-> <<"w", "a", "n.js">>].                          *)
(***************************************************************************)
EXTENDS Integers, Sequences, FiniteSets, TLC

\* ------------------------------------------------------------------ bounds

\* Number of plugin calls (callbacks and writeBundle) in one behaviour.
MaxCalls == 4

\* Byte length of the code a rollup module is reported with.
MaxCodeLen == 3

\* ------------------------------------------------------------------- paths

Rel(segs) == [abs |-> FALSE, segs |-> segs]

Abs(segs) == [abs |-> TRUE, segs |-> segs]

\* process.cwd(), the root every key is made relative to.
cwd == Abs(<<"w">>)

RECURSIVE CollapseFrom(_, _, _)
\* path.normalize on segments: ".." removes the segment before it, unless
\* there is none (a relative path keeps it, an absolute one drops it).
CollapseFrom(isAbs, done, rest) ==
    IF rest = <<>> THEN done
    ELSE LET s == Head(rest)
         IN  IF s = ".."
             THEN IF done # <<>> /\ done[Len(done)] # ".."
                  THEN CollapseFrom(isAbs, SubSeq(done, 1, Len(done) - 1), Tail(rest))
                  ELSE IF isAbs
                       THEN CollapseFrom(isAbs, done, Tail(rest))
                       ELSE CollapseFrom(isAbs, Append(done, s), Tail(rest))
             ELSE CollapseFrom(isAbs, Append(done, s), Tail(rest))

Collapse(p) == [abs |-> p.abs, segs |-> CollapseFrom(p.abs, <<>>, p.segs)]

\* path.dirname: the path without its last segment ("." is the empty list).
dirname(p) ==
    [abs |-> p.abs,
     segs |-> IF p.segs = <<>> THEN <<>> ELSE SubSeq(p.segs, 1, Len(p.segs) - 1)]

\* path.join: the segments of both, one after the other, then normalized;
\* an absolute second argument is not a new root.
join(dir, p) == Collapse([abs |-> dir.abs, segs |-> dir.segs \o p.segs])

\* path.resolve against the working directory.
resolve(p) == IF p.abs THEN Collapse(p) ELSE Collapse(Abs(cwd.segs \o p.segs))

RECURSIVE CommonLen(_, _)
CommonLen(s, t) ==
    IF s = <<>> \/ t = <<>> \/ Head(s) # Head(t) THEN 0
    ELSE 1 + CommonLen(Tail(s), Tail(t))

\* path.relative( from, to ), both resolved first.
relative(from, to) ==
    LET f == resolve(from).segs
        t == resolve(to).segs
        c == CommonLen(f, t)
    IN  Rel([i \in 1..(Len(f) - c) |-> ".."] \o SubSeq(t, c + 1, Len(t)))

\* utils.normalizePath: the root-relative, separator-normalized key of an id.
normalizePath(p) == relative(cwd, p)

\* ------------------------------------------------------- the module mapping

\* belongsTo is the set holding the parent's key; null is the empty set.
Null == {}

\* An assignment that starts the mapping afresh.
PutAfresh(inp, k, e) == [x \in {k} |-> e]

\* An assignment through an object that every entry shares.
PutShared(inp, k, e) == [x \in (DOMAIN inp) \cup {k} |-> e]

\* inputs[ k ] = e
Put(inp, k, e) == [x \in (DOMAIN inp) \cup {k} |-> IF x = k THEN e ELSE inp[x]]

Has(inp, k) == k \in DOMAIN inp

\* The entry load writes for the id it is given.
LoadEntry == [bytes |-> 0, format |-> "unknown", imports |-> <<>>, belongsTo |-> Null]

\* A child entry that names its parent by the parent's absolute path, not by
\* the parent's key.
ChildEntryAbsoluteParent(parent, path) ==
    [bytes |-> 0, format |-> parent.format, imports |-> <<>>,
     belongsTo |-> {resolve(path)}]

\* The entry the attribution loop writes for a source of the compiled module
\* `path`, whose entry was `parent` when the loop reached it.
ChildEntry(parent, path) ==
    [bytes |-> 0, format |-> parent.format, imports |-> <<>>, belongsTo |-> {path}]

\* The key a source of the compiled module `path` resolves to.
ChildKey(path, source) == normalizePath(join(dirname(path), source))

\* sources.forEach of generateReportFromAssets, for one compiled module.
RECURSIVE AttributeSources(_, _, _, _)
AttributeSources(inp, parent, path, sources) ==
    IF sources = <<>> THEN inp
    ELSE AttributeSources(Put(inp, ChildKey(path, Head(sources)), ChildEntry(parent, path)),
                          parent, path, Tail(sources))

\* sourcesGraph.forEach of generateReportFromAssets: the graph's pairs in
\* insertion order.  Reading parent.format of a path that has no entry throws
\* a TypeError, which ends the loop with the writes made so far.
RECURSIVE Attribute(_, _)
Attribute(inp, graph) ==
    IF graph = <<>> THEN [inputs |-> inp, error |-> "none"]
    ELSE LET path == Head(graph).path
             sources == Head(graph).sources
         IN  IF sources = <<>> THEN Attribute(inp, Tail(graph))
             ELSE IF ~Has(inp, path) THEN [inputs |-> inp, error |-> "TypeError"]
             ELSE Attribute(AttributeSources(inp, inp[path], path, sources), Tail(graph))

\* A graph keyed by the module's absolute path, not by its key in the module
\* mapping.
MapSetAbsolute(graph, path, sources) ==
    Append(graph, [path |-> resolve(path), sources |-> sources])

\* Map.prototype.set: a new key goes last, a known key keeps its place.
MapSet(graph, path, sources) ==
    IF \E i \in DOMAIN graph : graph[i].path = path
    THEN [i \in DOMAIN graph |->
            IF graph[i].path = path THEN [path |-> path, sources |-> sources] ELSE graph[i]]
    ELSE Append(graph, [path |-> path, sources |-> sources])

\* ------------------------------------------------------------- the inputs

Mjs == <<"m.js">>

Njs == <<"a", "n.js">>

Xmts == <<"x.mts">>

\* The module ids the build tool reports, as it writes them.
ModuleIds == { Rel(Mjs), Abs(cwd.segs \o Mjs), Rel(Njs), Rel(Xmts) }

\* The source paths a source map lists, as written in it.
SourcePaths == { Rel(Xmts), Rel(<<"..", "x.mts">>), Rel(<<"m.js">>), Rel(<<"..", "m.js">>) }

\* The sources lists of the source maps: empty, one source, and two sources
\* in either order.
SourceLists ==
    {<<>>} \cup { <<s>> : s \in SourcePaths }
           \cup { <<Rel(Xmts), Rel(<<"..", "x.mts">>)>>, <<Rel(<<"..", "m.js">>), Rel(Xmts)>> }

Undefined == <<>>

Some(v) == <<v>>

\* What loadCodeAndMap yields, as far as load reads it: result?.map?.sources.
LoadResults == {Undefined} \cup { Some(s) : s \in SourceLists }

\* The extension of a file name.
Extension(name) ==
    CASE name \in {"m.js", "n.js", "out.js"} -> ".js"
      [] name = "x.mts" -> ".mts"
      [] OTHER -> ""

FileName(p) == IF p.segs = <<>> THEN "" ELSE p.segs[Len(p.segs)]

\* The exclude option the plugin is made with: undefined (the default), or
\* a pattern, /n\.js$/, given as the file name it matches.
ExcludeOptions == { Undefined, Some("n.js") }

VARIABLE exclude

\* Options: include = /(\.js|\.css)$/ (the default).
includeTest(id) == Extension(FileName(id)) \in {".js", ".css"}

\* exclude?.test( id )
excludeTest(id) == exclude # Undefined /\ FileName(id) = exclude[1]

\* A loadInclude that accepts every id.
loadIncludeAll(id) == TRUE

\* loadInclude( id ): include.test( id ) && !exclude?.test( id )
loadInclude(id) == includeTest(id) /\ ~excludeTest(id)

\* rollupHandler.guessFormat: /\.m[tj]sx?$/ and /\.c[tj]sx?$/ on the id.
guessFormat(id) ==
    IF Extension(FileName(id)) \in {".mjs", ".mts", ".mjsx", ".mtsx"} THEN Some("esm")
    ELSE IF Extension(FileName(id)) \in {".cjs", ".cts", ".cjsx", ".ctsx"} THEN Some("cjs")
    ELSE Undefined

\* formats.get( module.meta.commonjs?.isCommonJS )
formats(isCommonJS) ==
    CASE isCommonJS = "true" -> Some("cjs")
      [] isCommonJS = "false" -> Some("esm")
      [] OTHER -> Undefined

\* a ?? b
Coalesce(a, b) == IF a # Undefined THEN a ELSE b

\* What rollup reports of a parsed module besides its id: the byte length of
\* module.code (0 also stands for a module without code),
\* module.meta.commonjs?.isCommonJS and module.importedIds.
ParsedInfos ==
    { [codeLen |-> 0, isCommonJS |-> "undefined", importedIds |-> <<>>],
      [codeLen |-> MaxCodeLen, isCommonJS |-> "false", importedIds |-> <<Abs(cwd.segs \o Mjs)>>],
      [codeLen |-> MaxCodeLen - 1, isCommonJS |-> "true", importedIds |-> <<>>] }

\* ids.map( id => normalizePath( id ) )
NormalizeAll(ids) == [i \in DOMAIN ids |-> normalizePath(ids[i])]

\* The build tools the plugin instance is made for: rollup (and vite), which
\* call moduleParsed and writeBundle( options, bundle ), and webpack, which
\* runs the optimizeModules and afterEmit hooks and calls writeBundle().
Bundlers == {"rollup", "webpack"}

VARIABLES bundler, inputs, sourcesGraph, assets, outputDir, last, calls

vars == <<bundler, exclude, inputs, sourcesGraph, assets, outputDir, last, calls>>

Called(op, id, error, report) == [op |-> op, id |-> id, error |-> error, report |-> report]

Init ==
    /\ bundler \in Bundlers
    /\ exclude \in ExcludeOptions
    /\ inputs = <<>>
    /\ sourcesGraph = <<>>
    /\ assets = Undefined
    /\ outputDir = Undefined
    /\ last = Called("init", Null, "none", "none")
    /\ calls = 0

\* The module mapping after load( id ).
LoadedInputs(inp, id) == Put(inp, normalizePath(id), LoadEntry)

\* factory.load, called for the ids loadInclude accepts.
Load(id, result) ==
    LET relativePath == normalizePath(id)
    IN  /\ calls < MaxCalls
        /\ loadInclude(id)
        /\ inputs' = LoadedInputs(inputs, id)
        /\ sourcesGraph' = IF result # Undefined
                           THEN MapSet(sourcesGraph, relativePath, result[1])
                           ELSE sourcesGraph
        /\ last' = Called("load", {relativePath}, "none", "none")
        /\ calls' = calls + 1
        /\ UNCHANGED <<bundler, exclude, assets, outputDir>>

\* The entry moduleParsed leaves for a module: the fields it reports written
\* over the entry found (or the default one), belongsTo kept.
ParsedEntry(input, id, codeLen, isCommonJS, importedIds) ==
    [input EXCEPT !.bytes = codeLen,
                  !.format = Coalesce(Coalesce(formats(isCommonJS), guessFormat(id)),
                                      Some("unknown"))[1],
                  !.imports = NormalizeAll(importedIds)]

\* The module mapping after moduleParsed( module ): inputs[ key ] ??= the
\* default entry, then the reported fields.
ParsedInputs(inp, id, codeLen, isCommonJS, importedIds) ==
    LET key == normalizePath(id)
        input == IF Has(inp, key) THEN inp[key] ELSE LoadEntry
    IN  Put(inp, key, ParsedEntry(input, id, codeLen, isCommonJS, importedIds))

\* rollupHandler.moduleParsed (rollup and vite).
ModuleParsed(id, codeLen, isCommonJS, importedIds) ==
    LET key == normalizePath(id)
    IN  /\ calls < MaxCalls
        /\ bundler = "rollup"
        /\ inputs' = ParsedInputs(inputs, id, codeLen, isCommonJS, importedIds)
        /\ last' = Called("moduleParsed", {key}, "none", "none")
        /\ calls' = calls + 1
        /\ UNCHANGED <<bundler, exclude, sourcesGraph, assets, outputDir>>

\* format of a webpack module: type === 'javascript/esm' ? 'esm' : 'cjs'
WebpackFormat(type) == IF type = "javascript/esm" THEN "esm" ELSE "cjs"

\* dependencies mapped to the resource of the module each resolves to, the
\* undefined ones filtered out.
RECURSIVE resolvedDependencies(_)
resolvedDependencies(dependencies) ==
    IF dependencies = <<>> THEN <<>>
    ELSE IF Head(dependencies) = Undefined THEN resolvedDependencies(Tail(dependencies))
    ELSE <<Head(dependencies)[1]>> \o resolvedDependencies(Tail(dependencies))

\* The key under which the optimizeModules handler looks for the entry of a
\* module it is given.
ExistingKey(resource) == resource

\* A new entry stored under the resource as webpack names it.
NewKeyAsReported(resource) == resource

\* The key under which the optimizeModules handler stores a new entry.
NewKey(resource) == normalizePath(resource)

\* The imports the optimizeModules handler stores in an entry it found.
ExistingImports(deps) == deps

\* The body of the optimizeModules handler's forEach, for one module.
OptimizeModule(inp, module) ==
    LET deps == resolvedDependencies(module.dependencies)
    IN  IF Has(inp, ExistingKey(module.resource))
        THEN Put(inp, ExistingKey(module.resource),
                 [inp[ExistingKey(module.resource)] EXCEPT
                     !.format = WebpackFormat(module.type),
                     !.imports = ExistingImports(deps)])
        ELSE Put(inp, NewKey(module.resource),
                 [bytes |-> 0,
                  format |-> WebpackFormat(module.type),
                  imports |-> NormalizeAll(deps),
                  belongsTo |-> Null])

RECURSIVE OptimizeAll(_, _)
OptimizeAll(inp, modules) ==
    IF modules = <<>> THEN inp
    ELSE OptimizeAll(OptimizeModule(inp, Head(modules)), Tail(modules))

\* The dependencies of a webpack module, each the resource it resolves to or
\* undefined.
WebpackInfos ==
    { [type |-> "javascript/esm", dependencies |-> <<Undefined, Some(Abs(cwd.segs \o Mjs))>>],
      [type |-> "javascript/auto", dependencies |-> <<>>] }

WebpackModules ==
    { [resource |-> r, type |-> i.type, dependencies |-> i.dependencies] :
        r \in ModuleIds, i \in WebpackInfos }

\* The modules of one optimizeModules call: one module, or the same file
\* twice, under its relative and its absolute name.
ModuleLists ==
    { <<m>> : m \in WebpackModules }
    \cup { <<[m EXCEPT !.resource = Rel(Mjs)], [n EXCEPT !.resource = Abs(cwd.segs \o Mjs)]>> :
             m \in WebpackModules, n \in WebpackModules }

\* webpack: the optimizeModules hook of a compilation.
OptimizeModules(modules) ==
    /\ calls < MaxCalls
    /\ bundler = "webpack"
    /\ inputs' = OptimizeAll(inputs, modules)
    /\ last' = Called("optimizeModules",
                      { normalizePath(modules[i].resource) : i \in DOMAIN modules },
                      "none", "none")
    /\ calls' = calls + 1
    /\ UNCHANGED <<bundler, exclude, sourcesGraph, assets, outputDir>>

\* The output directories and asset names of a build.
Dist == Abs(cwd.segs \o <<"dist">>)

\* What webpack emitted: compiler.options.output.path and the names of
\* compiler.assets.
Emitted ==
    { [path |-> Some(Dist), names |-> <<Rel(<<"out.js">>)>>],
      [path |-> Undefined, names |-> <<>>] }

JoinAll(dir, names) == [i \in DOMAIN names |-> join(dir, names[i])]

\* webpack: the afterEmit hook; output.path ?? process.cwd().
AfterEmit(outputPath, names) ==
    LET dir == IF outputPath # Undefined THEN outputPath[1] ELSE cwd
    IN  /\ calls < MaxCalls
        /\ bundler = "webpack"
        /\ outputDir' = Some(dir)
        /\ assets' = Some(JoinAll(dir, names))
        /\ last' = Called("afterEmit", Null, "none", "none")
        /\ calls' = calls + 1
        /\ UNCHANGED <<bundler, exclude, inputs, sourcesGraph>>

\* The arguments of writeBundle: none (webpack), or the output options and the
\* bundle (rollup and vite).
WriteBundleArgs(tool) ==
    IF tool = "webpack" THEN {Undefined}
    ELSE { Some([options |-> [dir |-> Some(Rel(<<"dist">>)), file |-> Undefined],
                 bundle |-> <<Rel(<<"out.js">>)>>]),
           Some([options |-> [dir |-> Undefined, file |-> Some(Rel(<<"dist", "out.js">>))],
                 bundle |-> <<>>]) }

\* writeBundle without its test for missing output.
MissingOutputUnchecked(args, recorded) == FALSE

\* The test writeBundle throws on: no arguments and no assets recorded.
MissingOutput(args, recorded) == args = Undefined /\ recorded = Undefined

\* resolve( process.cwd(), options.dir ?? dirname( options.file! ) )
BundleDir(options) ==
    resolve(IF options.dir # Undefined THEN options.dir[1] ELSE dirname(options.file[1]))

\* factory.writeBundle and generateReportFromAssets.  The report is "handed"
\* when generateHtmlReport is called with assets' and inputs'; the file is
\* written, and opened, when it returns a report.
WriteBundle(args) ==
    /\ calls < MaxCalls
    /\ calls' = calls + 1
    /\ UNCHANGED <<bundler, exclude>>
    /\ IF MissingOutput(args, assets)
       THEN /\ last' = Called("writeBundle", Null, "MissingOutput", "none")
            /\ UNCHANGED <<inputs, sourcesGraph, assets, outputDir>>
       ELSE LET done == Attribute(inputs, sourcesGraph)
            IN  /\ IF args # Undefined
                   THEN /\ outputDir' = Some(BundleDir(args[1].options))
                        /\ assets' = Some(JoinAll(BundleDir(args[1].options), args[1].bundle))
                   ELSE UNCHANGED <<assets, outputDir>>
                /\ inputs' = done.inputs
                /\ last' = Called("writeBundle", Null, done.error,
                                  IF done.error # "none" THEN "none" ELSE "handed")
                /\ UNCHANGED sourcesGraph

Next ==
    \/ \E id \in ModuleIds, result \in LoadResults : Load(id, result)
    \/ \E id \in ModuleIds, info \in ParsedInfos :
          ModuleParsed(id, info.codeLen, info.isCommonJS, info.importedIds)
    \/ \E modules \in ModuleLists : OptimizeModules(modules)
    \/ \E emitted \in Emitted : AfterEmit(emitted.path, emitted.names)
    \/ \E args \in WriteBundleArgs(bundler) : WriteBundle(args)

Spec == Init /\ [][Next]_vars

\* ------------------------------------------------------------------ claims

\* Some call of writeBundle.
AnyWriteBundle == \E args \in WriteBundleArgs(bundler) : WriteBundle(args)

\* The keys the sources of the graph's i-th compiled module resolve to.
ChildKeys(graph, i) ==
    { ChildKey(graph[i].path, graph[i].sources[n]) : n \in DOMAIN graph[i].sources }

\* The compiled modules of the graph that list a source resolving to key.
Listing(graph, key) == { i \in DOMAIN graph : key \in ChildKeys(graph, i) }

Min(S) == CHOOSE x \in S : \A y \in S : x <= y

C2_FirstAttributionWins ==
    [][ (AnyWriteBundle /\ last'.error = "none") =>
            \A key \in (DOMAIN inputs') \ (DOMAIN inputs) :
                Cardinality(Listing(sourcesGraph, key)) >= 2 =>
                    inputs'[key].belongsTo =
                        {sourcesGraph[Min(Listing(sourcesGraph, key))].path} ]_vars

\* C3: a real entry (belongsTo = null) that a source of some other compiled
\* module resolves to is left as it was by attribution.
C3_RealNeverDemoted ==
    [][ (AnyWriteBundle /\ last'.error = "none") =>
            \A key \in DOMAIN inputs :
                ( /\ inputs[key].belongsTo = Null
                  /\ Listing(sourcesGraph, key) # {}
                  /\ \A i \in Listing(sourcesGraph, key) : sourcesGraph[i].path # key ) =>
                    inputs'[key] = inputs[key] ]_vars

\* C4: no entry has its own key as belongsTo.
C4_NoSelfReference ==
    \A key \in DOMAIN inputs : inputs[key].belongsTo # {key}

\* C5: attributing a second time, with the mapping and the graph the first
\* attribution left, changes nothing.
C5_AttributionIdempotent ==
    LET once == Attribute(inputs, sourcesGraph)
    IN  once.error = "none" =>
            Attribute(once.inputs, sourcesGraph).inputs = once.inputs

\* C6: every key an entry names as its belongsTo is a key of the mapping, in
\* every reachable state and so in every report handed to the builder.
C6_BelongsToPresent ==
    \A key \in DOMAIN inputs : \A parent \in inputs[key].belongsTo : Has(inputs, parent)

\* A report was handed to the builder with a virtual entry in it.
C6_Witness ==
    /\ last.report = "handed"
    /\ \E key \in DOMAIN inputs : inputs[key].belongsTo # Null

\* C7: the parent an entry belongs to is itself a real entry (stated for an
\* entry that belongs to another key than its own).
C7_OneHop ==
    \A key \in DOMAIN inputs : \A parent \in inputs[key].belongsTo \ {key} :
        Has(inputs, parent) => inputs[parent].belongsTo = Null

\* The entries of the mapping that belong to the compiled module `path`.
VirtualChildren(inp, path) == { key \in DOMAIN inp : inp[key].belongsTo = {path} }

RECURSIVE SumBytes(_, _)
SumBytes(inp, keys) ==
    IF keys = {} THEN 0
    ELSE LET key == CHOOSE k \in keys : TRUE
         IN  inp[key].bytes + SumBytes(inp, keys \ {key})

\* C8: in a report handed to the builder, the bytes of the virtual children
\* of a compiled module add up to the module's own bytes.
C8_Conservation ==
    last.report = "handed" =>
        \A path \in DOMAIN inputs :
            VirtualChildren(inputs, path) # {} =>
                SumBytes(inputs, VirtualChildren(inputs, path)) = inputs[path].bytes

RECURSIVE Distinct(_)
\* A sequence without the later copies of its elements.
Distinct(seq) ==
    IF seq = <<>> THEN <<>>
    ELSE LET front == Distinct(SubSeq(seq, 1, Len(seq) - 1))
             x == seq[Len(seq)]
         IN  IF \E i \in DOMAIN front : front[i] = x THEN front ELSE Append(front, x)

\* The virtual children of the graph's i-th compiled module, in source-map
\* order.
ChildrenInOrder(inp, graph, i) ==
    LET keys == Distinct([n \in DOMAIN graph[i].sources |->
                             ChildKey(graph[i].path, graph[i].sources[n])])
        IsChild(key) == Has(inp, key) /\ inp[key].belongsTo = {graph[i].path}
    IN  SelectSeq(keys, IsChild)

\* The equal split of bytes among n children: the n-th part to each, the
\* remainder to the first.
EqualShare(bytes, n, index) == (bytes \div n) + (IF index = 1 THEN bytes % n ELSE 0)

\* C9: in a report handed to the builder, each virtual child of a compiled
\* module has its equal share of the module's bytes, the first child in
\* source-map order the remainder as well.
C9_EqualSplit ==
    last.report = "handed" =>
        \A i \in DOMAIN sourcesGraph :
            LET path == sourcesGraph[i].path
                children == ChildrenInOrder(inputs, sourcesGraph, i)
            IN  (Has(inputs, path) /\ inputs[path].belongsTo = Null) =>
                    \A n \in DOMAIN children :
                        inputs[children[n]].bytes =
                            EqualShare(inputs[path].bytes, Len(children), n)

\* C10: a callback that observes a key with an entry overwrites only the
\* fields it reports: load none of bytes, format, imports and belongsTo,
\* moduleParsed not belongsTo, the optimizeModules handler neither bytes nor
\* belongsTo.
C10_UpsertMerges ==
    [][ /\ \A id \in ModuleIds, result \in LoadResults :
            (Load(id, result) /\ Has(inputs, normalizePath(id))) =>
                inputs'[normalizePath(id)] = inputs[normalizePath(id)]
        /\ \A id \in ModuleIds, info \in ParsedInfos :
            ( /\ ModuleParsed(id, info.codeLen, info.isCommonJS, info.importedIds)
              /\ Has(inputs, normalizePath(id)) ) =>
                inputs'[normalizePath(id)].belongsTo = inputs[normalizePath(id)].belongsTo
        /\ \A modules \in ModuleLists :
            OptimizeModules(modules) =>
                \A key \in last'.id :
                    Has(inputs, key) =>
                        /\ inputs'[key].bytes = inputs[key].bytes
                        /\ inputs'[key].belongsTo = inputs[key].belongsTo ]_vars

\* Some call of load whose result has no usable source map for the key.
LoadedWithoutMap(key) ==
    \E id \in ModuleIds : normalizePath(id) = key /\ Load(id, Undefined)

\* C11: a load that yields no usable source map records the module as a real
\* entry, and an attribution run after it creates no entry that belongs to
\* the module, whatever an earlier load of the same id yielded.
C11_NoMapNoChildren ==
    [][ \A key \in DOMAIN inputs' :
            LoadedWithoutMap(key) =>
                LET after == Attribute(inputs', sourcesGraph').inputs
                IN  /\ inputs'[key].belongsTo = Null
                    /\ \A child \in (DOMAIN after) \ (DOMAIN inputs') :
                           after[child].belongsTo # {key} ]_vars

\* The ids and source-map paths the callbacks are given, and the keys they
\* resolve to.
ObservedPaths ==
    ModuleIds \cup { normalizePath(id) : id \in ModuleIds }
              \cup { join(dirname(normalizePath(id)), source) :
                        id \in ModuleIds, source \in SourcePaths }

C13_ImportsNormalized ==
    [][ /\ \A module \in WebpackModules :
            OptimizeModules(<<module>>) =>
                inputs'[normalizePath(module.resource)].imports =
                    NormalizeAll(resolvedDependencies(module.dependencies))
        /\ \A id \in ModuleIds, info \in ParsedInfos :
            ModuleParsed(id, info.codeLen, info.isCommonJS, info.importedIds) =>
                inputs'[normalizePath(id)].imports = NormalizeAll(info.importedIds) ]_vars

\* C14: no call removes an entry: the keys of the module mapping before a
\* step are keys after it.
C14_NoEntryRemoved == [][ (DOMAIN inputs) \subseteq (DOMAIN inputs') ]_vars

\* A report was handed over for a mapping of three entries or more.
C14_Witness == last.report = "handed" /\ Cardinality(DOMAIN inputs) >= 3

\* The adapter callbacks the plugin's build tool can make: load for the ids
\* loadInclude accepts, and moduleParsed (rollup) or the optimizeModules
\* handler (webpack).
Callbacks ==
    { [op |-> "load", id |-> id, info |-> Undefined, modules |-> <<>>] :
        id \in { i \in ModuleIds : loadInclude(i) } }
    \cup (IF bundler = "rollup"
          THEN { [op |-> "moduleParsed", id |-> c[1], info |-> Some(c[2]), modules |-> <<>>] :
                    c \in ModuleIds \X ParsedInfos }
          ELSE { [op |-> "optimizeModules", id |-> modules[1].resource, info |-> Undefined,
                  modules |-> modules] : modules \in ModuleLists })

\* The keys a callback is for.
KeysOf(cb) ==
    IF cb.op = "optimizeModules"
    THEN { normalizePath(cb.modules[i].resource) : i \in DOMAIN cb.modules }
    ELSE {normalizePath(cb.id)}

\* The module mapping a callback leaves.
Apply(inp, cb) ==
    CASE cb.op = "load" -> LoadedInputs(inp, cb.id)
      [] cb.op = "moduleParsed" ->
            ParsedInputs(inp, cb.id, cb.info[1].codeLen, cb.info[1].isCommonJS,
                         cb.info[1].importedIds)
      [] OTHER -> OptimizeAll(inp, cb.modules)

\* The step is an adapter callback: load, moduleParsed or the optimizeModules
\* handler (each call records its name in last).
AnyCallback ==
    calls' = calls + 1 /\ last'.op \in {"load", "moduleParsed", "optimizeModules"}

\* Where two more callbacks can be made, two for distinct keys leave the same
\* mapping in either order.
Commute ==
    calls + 2 <= MaxCalls =>
        \A a \in Callbacks, b \in Callbacks :
            KeysOf(a) \cap KeysOf(b) = {} =>
                Apply(Apply(inputs, a), b) = Apply(Apply(inputs, b), a)

\* C15: an adapter callback leaves the entry of every key it is not for as
\* it was, and two callbacks for distinct keys leave the same module mapping
\* in either order.
C15_DistinctKeysIndependent ==
    /\ [][ AnyCallback =>
              \A key \in (DOMAIN inputs) \ last'.id : inputs'[key] = inputs[key] ]_vars
    /\ []Commute

\* A callback has just been made for one key while the mapping holds real and
\* virtual entries of other keys.
C15_Witness ==
    /\ last.op \in {"load", "moduleParsed", "optimizeModules"}
    /\ \E key \in (DOMAIN inputs) \ last.id : inputs[key].belongsTo # Null
    /\ \E key \in (DOMAIN inputs) \ last.id : inputs[key].belongsTo = Null


\* C16: an adapter callback never writes the bytes of a virtual entry and
\* never turns a virtual entry into a real one (stated for the virtual
\* entries that belong to another module).
C16_VirtualBytesUntouched ==
    [][ AnyCallback =>
          \A key \in DOMAIN inputs :
              (inputs[key].belongsTo # Null /\ key \notin inputs[key].belongsTo) =>
                  /\ inputs'[key].bytes = inputs[key].bytes
                  /\ inputs'[key].belongsTo # Null ]_vars


\* C17: each entry attribution creates for a key not yet in the mapping has
\* bytes 0, no imports, the compiled module that lists it as belongsTo and
\* the format that compiled module was reported with; a listed child whose
\* format is already known keeps that format.
C17_VirtualEntryShape ==
    [][ (AnyWriteBundle /\ last'.error = "none") =>
            /\ \A key \in (DOMAIN inputs') \ (DOMAIN inputs) :
                 \E i \in Listing(sourcesGraph, key) :
                     inputs'[key] = [bytes |-> 0,
                                     format |-> inputs[sourcesGraph[i].path].format,
                                     imports |-> <<>>,
                                     belongsTo |-> {sourcesGraph[i].path}]
            /\ \A key \in DOMAIN inputs :
                 ( /\ inputs[key].format # "unknown"
                   /\ Listing(sourcesGraph, key) # {}
                   /\ \A i \in Listing(sourcesGraph, key) : sourcesGraph[i].path # key ) =>
                     inputs'[key].format = inputs[key].format ]_vars


\* The key is that of a module id that matches include and not exclude.
Accepted(key) ==
    \E id \in ModuleIds :
        includeTest(id) /\ ~excludeTest(id) /\ normalizePath(id) = key

\* C18 as stated: whichever hook observes a module, it gets an entry in the
\* module mapping only if its id matches include and does not match exclude.
C18_OnlyAcceptedRecorded ==
    [][ AnyCallback => \A key \in last'.id : Accepted(key) ]_vars

\* C18: a module id that fails include or matches exclude is never given to
\* load: its source map is not read, so it is never a key of the source-map
\* graph and the load hook never writes its entry.  (moduleParsed and the
\* optimizeModules handler record every module they observe.)
C18_OnlyAcceptedLoaded ==
    /\ \A i \in DOMAIN sourcesGraph : Accepted(sourcesGraph[i].path)
    /\ last.op = "load" => \A key \in last.id : Accepted(key)

\* Modules that fail include (x.mts) and match exclude (a/n.js) have entries,
\* written by moduleParsed or the optimizeModules handler, next to a module
\* whose source map was read.
C18_Witness ==
    /\ exclude # Undefined
    /\ Has(inputs, Rel(Xmts)) /\ inputs[Rel(Xmts)].belongsTo = Null
    /\ Has(inputs, Rel(Njs)) /\ inputs[Rel(Njs)].belongsTo = Null
    /\ \E i \in DOMAIN sourcesGraph : sourcesGraph[i].sources # <<>>


\* C19: every key of the source-map graph is a key of the module mapping, and
\* the attribution loop has never read the format of a missing parent entry.
C19_GraphKeysHaveEntries ==
    /\ \A i \in DOMAIN sourcesGraph : Has(inputs, sourcesGraph[i].path)
    /\ last.error # "TypeError"

\* A report has been handed on after the attribution loop read the parent
\* entries of two compiled modules with sources.
C19_Witness ==
    /\ last.report = "handed"
    /\ Len(sourcesGraph) >= 2
    /\ \A i \in DOMAIN sourcesGraph : sourcesGraph[i].sources # <<>>

====
